---------------------------- MODULE Spec2Model ----------------------------
(***************************************************************************)
(* Model of package https (src/context.go): the Context wrapper around an  *)
(* http.ResponseWriter and an *http.Request.                               *)
(*                                                                         *)
(* Strings that the code converts are sequences of one-character strings,  *)
(* so that parsing is computed and can fail.                               *)
(***************************************************************************)
EXTENDS Integers, Sequences, FiniteSets, TLC

\* ------------------------------------------------------------- bounds

\* Most key=value pairs in a request's query string.
MaxPairs == 3

\* ------------------------------------------------------ input domains

\* The keys a request may carry.
Keys == {"n", "name", "a", "k"}

\* The raw strings a request may carry.
RawStrings ==
    { <<>>, <<"1">>, <<"-", "3">>, <<"3", "0", "0">>, <<"x">> }

\* A canonical order of the keys, to enumerate each multiset of pairs once.
KeyRank(k) ==
    CASE k = "a" -> 1 [] k = "k" -> 2 [] k = "n" -> 3 [] OTHER -> 4

Pairs == { <<k, v>> : k \in Keys, v \in RawStrings }

\* Query strings: the pairs in order of appearance, keys grouped.
QueryStrings ==
    UNION { { q \in [1..n -> Pairs] :
                \A i \in 1..(n - 1) : KeyRank(q[i][1]) <= KeyRank(q[i + 1][1]) }
            : n \in 0..MaxPairs }

\* --------------------------------------------------- the target struct
\*   type T struct {
\*       Name string `form:"name" url:"n"`
\*       Age  int8   `form:"a"    url:"a"`
\*       Ok   bool   `form:"k"    url:"k"`
\*   }

Fields == <<"Name", "Age", "Ok">>

FieldKind(f) ==
    CASE f = "Name" -> "string" [] f = "Age" -> "int8" [] OTHER -> "bool"

\* The alias of field f under the decoder's tag namespace.
FieldAlias(tagKey, f) ==
    CASE f = "Name" -> (IF tagKey = "form" THEN "name" ELSE "n")
      [] f = "Age" -> "a"
      [] OTHER -> "k"

ZeroStruct == [Name |-> <<>>, Age |-> 0, Ok |-> FALSE]
PriorStruct == [Name |-> <<"o">>, Age |-> 5, Ok |-> TRUE]

\* What a caller may pass as data: kind is the reflect shape of the value.
Targets ==
    { [kind |-> "nil", fields |-> ZeroStruct],
      [kind |-> "nilptr", fields |-> ZeroStruct],
      [kind |-> "struct", fields |-> PriorStruct],
      [kind |-> "ptrint", fields |-> ZeroStruct],
      [kind |-> "ptrstruct", fields |-> ZeroStruct],
      [kind |-> "ptrstruct", fields |-> PriorStruct] }


VARIABLES
    R,        \* the *http.Request of the Context: query string, body, caches
    heap,     \* the url.Values maps allocated so far; an address is an index
    W,        \* the http.ResponseWriter of the Context
    streams,  \* the upload streams opened so far, each open or closed
    target,   \* the value the caller passes as data / v
    err,      \* the error the last operation returned
    last,     \* the last operation: its name, its inputs, the state before it
    pc,       \* the handler's position
    log,      \* what the collaborators saw, in order
    held,     \* the url.Values the handler holds: an address, 0 for none
    cache,    \* the struct-info caches of decoderForm and decoderQuery
    procs     \* the concurrent handlers: each one's position and locals

\* ------------------------------------------------ net/url and net/http

\* The values of key k in a query string, in order of appearance.
RECURSIVE ValuesOf(_, _)
ValuesOf(q, k) ==
    IF q = <<>> THEN <<>>
    ELSE IF q[1][1] = k THEN <<q[1][2]>> \o ValuesOf(Tail(q), k)
    ELSE ValuesOf(Tail(q), k)

\* url.ParseQuery: a new url.Values, each key mapped to its values in order.
ParseQuery(q) ==
    [k \in { q[i][1] : i \in 1..Len(q) } |-> ValuesOf(q, k)]

\* net/http copyValues: dst[k] = append(dst[k], vs...) for every k of src.
CopyValues(dst, src) ==
    [k \in (DOMAIN dst) \cup (DOMAIN src) |->
        (IF k \in DOMAIN dst THEN dst[k] ELSE <<>>)
            \o (IF k \in DOMAIN src THEN src[k] ELSE <<>>)]

\* A request whose Body is nil.
NoBody == [present |-> FALSE, data |-> <<>>, pos |-> 0, fails |-> FALSE]

\* The empty url.Values.
NoValues == [k \in {} |-> <<>>]

\* Request.ParseForm: fills r.PostForm and r.Form when they are nil, and
\* leaves them alone otherwise.  Yields the request and the heap after it.
ParseForm(req, hp) ==
    LET post == IF req.method = "POST" THEN ParseQuery(req.postBody) ELSE NoValues
        hp1 == IF req.PostForm = 0 THEN Append(hp, post) ELSE hp
        r1 == IF req.PostForm = 0 THEN [req EXCEPT !.PostForm = Len(hp1)] ELSE req
        form == CopyValues(hp1[r1.PostForm], ParseQuery(req.rawQuery))
        hp2 == IF r1.Form = 0 THEN Append(hp1, form) ELSE hp1
        r2 == IF r1.Form = 0 THEN [r1 EXCEPT !.Form = Len(hp2)] ELSE r1
    IN [R |-> r2, heap |-> hp2]

\* ------------------------------------------------------ Context values

\* Context.Query: p.R.URL.Query() parses the query string into a new map on
\* every call.  Yields the heap after the call and the address returned.
Query(req, hp) ==
    LET hp1 == Append(hp, ParseQuery(req.rawQuery))
    IN [R |-> req, heap |-> hp1, values |-> Len(hp1)]

\* A faulty variant of Form: the form is parsed into a new map on every call.
FormParsedAnew(req, hp) ==
    LET form == ParseForm([req EXCEPT !.Form = 0, !.PostForm = 0], hp)
    IN [R |-> form.R, heap |-> form.heap, values |-> form.R.Form]

\* Context.Form: p.R.ParseForm(), then p.R.Form.
Form(req, hp) ==
    LET s == ParseForm(req, hp)
    IN [R |-> s.R, heap |-> s.heap, values |-> s.R.Form]

\* Context.PostForm: p.R.ParseForm(), then p.R.PostForm.
PostForm(req, hp) ==
    LET s == ParseForm(req, hp)
    IN [R |-> s.R, heap |-> s.heap, values |-> s.R.PostForm]

\* ------------------------------------------------------------- strconv

DigitVal(c) ==
    CASE c = "0" -> 0 [] c = "1" -> 1 [] c = "2" -> 2 [] c = "3" -> 3
      [] c = "4" -> 4 [] c = "5" -> 5 [] c = "6" -> 6 [] c = "7" -> 7
      [] c = "8" -> 8 [] c = "9" -> 9 [] OTHER -> -1

\* The value of a run of decimal digits, -1 when a character is no digit.
RECURSIVE Digits(_, _)
Digits(s, acc) ==
    IF s = <<>> THEN acc
    ELSE IF DigitVal(s[1]) < 0 THEN -1
    ELSE Digits(Tail(s), acc * 10 + DigitVal(s[1]))

\* strconv.ParseInt(s, 10, bits): an optional sign, then at least one digit,
\* and a value that fits in bits bits.
ParseInt(s, bits) ==
    LET signed == s # <<>> /\ s[1] \in {"+", "-"}
        neg == s # <<>> /\ s[1] = "-"
        body == IF signed THEN Tail(s) ELSE s
        n == IF body = <<>> THEN -1 ELSE Digits(body, 0)
        inRange == IF neg THEN n <= 2 ^ (bits - 1) ELSE n <= 2 ^ (bits - 1) - 1
    IN IF n < 0 \/ ~inRange THEN [ok |-> FALSE, val |-> 0]
       ELSE [ok |-> TRUE, val |-> IF neg THEN 0 - n ELSE n]

TrueLiterals ==
    { <<"1">>, <<"t">>, <<"T">>, <<"t", "r", "u", "e">>,
      <<"T", "R", "U", "E">>, <<"T", "r", "u", "e">> }

FalseLiterals ==
    { <<"0">>, <<"f">>, <<"F">>, <<"f", "a", "l", "s", "e">>,
      <<"F", "A", "L", "S", "E">>, <<"F", "a", "l", "s", "e">> }

\* strconv.ParseBool.
ParseBool(s) ==
    IF s \in TrueLiterals THEN [ok |-> TRUE, val |-> TRUE]
    ELSE IF s \in FalseLiterals THEN [ok |-> TRUE, val |-> FALSE]
    ELSE [ok |-> FALSE, val |-> FALSE]

\* ------------------------------------------- github.com/gorilla/schema
\* decoderForm and decoderQuery are schema.NewDecoder() with the alias tag
\* set to "form" and "url"; no other option is changed.

NoError == [kind |-> "nil", errs |-> {}]
InvalidTarget == [kind |-> "InvalidTarget", errs |-> {}]
MultiError(errs) == [kind |-> "MultiError", errs |-> errs]

\* A faulty variant of ZeroEmpty: the decoders built with ZeroEmpty(true).
ZeroEmptyOn == TRUE

\* The decoders' zeroEmpty option: NewDecoder leaves it off, init does not
\* turn it on.
ZeroEmpty == FALSE

\* A faulty variant of IsPtrToStruct: only the pointer kind is looked at.
IsPtr(dst) == dst.kind \in {"nilptr", "ptrint", "ptrstruct"}

\* Decode's test of dst: reflect kind Ptr, and its Elem of kind Struct.
IsPtrToStruct(dst) == dst.kind = "ptrstruct"

\* A faulty variant of ValueUsed: the first value of the key.
FirstValue(values) == values[1]

\* The one value Decode hands to the converter of a non-slice field.
ValueUsed(values) == values[Len(values)]

\* The built-in converter of a kind: the converted value, or not ok.  The
\* bool converter takes "on" as well as what strconv.ParseBool takes.
Convert(kind, raw) ==
    CASE kind = "string" -> [ok |-> TRUE, val |-> raw]
      [] kind = "int8" -> ParseInt(raw, 8)
      [] OTHER -> IF raw = <<"o", "n">> THEN [ok |-> TRUE, val |-> TRUE]
                  ELSE ParseBool(raw)

\* The zero value of a kind.
Zero(kind) ==
    CASE kind = "string" -> <<>> [] kind = "int8" -> 0 [] OTHER -> FALSE

FieldSet == { Fields[i] : i \in 1..Len(Fields) }

\* The struct info the decoder with alias tag tagKey creates for T: each
\* field's alias.
StructInfo(tagKey) == [f \in FieldSet |-> FieldAlias(tagKey, f)]

\* The fields whose alias is path, by the struct info.
FieldsAt(info, path) ==
    { i \in 1..Len(Fields) : info[Fields[i]] = path }

\* One round of Decode's loop over src: the key path with its values,
\* decoded by the struct info the cache gave.  acc holds the struct's fields
\* and the errors merged so far.
DecodePath(info, acc, path, values) ==
    IF FieldsAt(info, path) = {}
    THEN [acc EXCEPT !.errs = @ \cup {<<path, "UnknownKeyError">>}]
    ELSE LET f == Fields[CHOOSE i \in FieldsAt(info, path) : TRUE]
             val == ValueUsed(values)
             conv == Convert(FieldKind(f), val)
         IN IF val = <<>>
            THEN IF ZeroEmpty
                 THEN [acc EXCEPT !.fields[f] = Zero(FieldKind(f))]
                 ELSE acc
            ELSE IF conv.ok
            THEN [acc EXCEPT !.fields[f] = conv.val]
            ELSE [acc EXCEPT !.errs = @ \cup {<<path, "ConversionError">>}]

\* for path, values := range src, the keys visited in the given order.
RECURSIVE DecodeLoop(_, _, _, _)
DecodeLoop(info, acc, src, order) ==
    IF order = <<>> THEN acc
    ELSE DecodeLoop(info, DecodePath(info, acc, order[1], src[order[1]]),
                    src, Tail(order))

\* A faulty variant of Decode: the fields are written only when no key failed.
DecodeAllOrNothing(tagKey, dst, src, order) ==
    IF ~IsPtrToStruct(dst) THEN [target |-> dst, err |-> InvalidTarget]
    ELSE LET acc == DecodeLoop(StructInfo(tagKey),
                               [fields |-> dst.fields, errs |-> {}], src, order)
         IN IF acc.errs = {}
            THEN [target |-> [dst EXCEPT !.fields = acc.fields], err |-> NoError]
            ELSE [target |-> dst, err |-> MultiError(acc.errs)]

\* Decoder.Decode(dst, src) of the decoder whose alias tag is tagKey: the
\* target after the call, and the error returned.
Decode(tagKey, dst, src, order) ==
    IF ~IsPtrToStruct(dst) THEN [target |-> dst, err |-> InvalidTarget]
    ELSE LET acc == DecodeLoop(StructInfo(tagKey),
                               [fields |-> dst.fields, errs |-> {}], src, order)
         IN [target |-> [dst EXCEPT !.fields = acc.fields],
             err |-> IF acc.errs = {} THEN NoError ELSE MultiError(acc.errs)]

\* The orders in which a range over a map with these keys may visit them.
Orders(keys) ==
    { o \in [1..Cardinality(keys) -> keys] :
        \A i, j \in DOMAIN o : i # j => o[i] # o[j] }

\* -------------------------------------------------------- Context bind

\* A faulty variant of BindValues: the source's length is not looked at.
BindAlways(tagKey, data, values, order) ==
    Decode(tagKey, data, values, order)

\* The body ReadForm and ReadQuery share once the values are fetched.
BindValues(tagKey, data, values, order) ==
    IF Cardinality(DOMAIN values) = 0
    THEN [target |-> data, err |-> NoError]
    ELSE Decode(tagKey, data, values, order)

\* Context.ReadQuery(data).
ReadQuery ==
    /\ pc = "ready"
    /\ \E q \in {Query(R, heap)} :
         \E values \in {q.heap[q.values]} :
           \E order \in Orders(DOMAIN values) :
             \E res \in {BindValues("url", target, values, order)} :
               /\ R' = q.R
               /\ heap' = q.heap
               /\ target' = res.target
               /\ err' = res.err
               /\ last' = [op |-> "ReadQuery", tagKey |-> "url",
                           pre |-> target, values |-> values]
    /\ pc' = "done"
    /\ UNCHANGED <<W, streams, log, held, cache, procs>>

\* Context.ReadForm(data).
ReadForm ==
    /\ pc = "ready"
    /\ \E q \in {Form(R, heap)} :
         \E values \in {q.heap[q.values]} :
           \E order \in Orders(DOMAIN values) :
             \E res \in {BindValues("form", target, values, order)} :
               /\ R' = q.R
               /\ heap' = q.heap
               /\ target' = res.target
               /\ err' = res.err
               /\ last' = [op |-> "ReadForm", tagKey |-> "form",
                           pre |-> target, values |-> values]
    /\ pc' = "done"
    /\ UNCHANGED <<W, streams, log, held, cache, procs>>

NoOp == [op |-> "none", tagKey |-> "", pre |-> CHOOSE t \in Targets : TRUE,
         values |-> NoValues]

\* A request with the given query string and form body, nothing parsed yet.
Request(method, q, body) ==
    [method |-> method, rawQuery |-> q, postBody |-> body, Form |-> 0, PostForm |-> 0,
     Body |-> NoBody]

\* A GET request with the given query string.
NewRequest(q) == Request("GET", q, <<>>)

vars == <<R, heap, W, streams, target, err, last, pc, log, held, cache, procs>>

InitBind ==
    /\ R \in { NewRequest(q) : q \in QueryStrings }
    /\ heap = <<>>
    /\ target \in Targets
    /\ err = NoError
    /\ last = NoOp
    /\ pc = "ready"
    /\ W = <<>> /\ streams = <<>> /\ log = <<>> /\ held = 0
    /\ cache = <<>> /\ procs = <<>>

NextBind == ReadQuery \/ ReadForm

SpecBind == InitBind /\ [][NextBind]_vars

\* ------------------------------------------------- properties of bind

\* A bind call has returned.
Bound == pc = "done" /\ last.op \in {"ReadQuery", "ReadForm"}

BoundStruct == Bound /\ last.pre.kind = "ptrstruct"

EmptySource == DOMAIN last.values = {}

\* Whether the value source holds the key of field f.
Present(f) == FieldAlias(last.tagKey, f) \in DOMAIN last.values

\* The raw string of field f's key: the value of the key that reaches the
\* converter (which of several values that is, is the subject of C4).
RawOf(f) ==
    LET vs == last.values[FieldAlias(last.tagKey, f)] IN vs[Len(vs)]

Parseable(f) == Present(f) /\ RawOf(f) # <<>> /\ Convert(FieldKind(f), RawOf(f)).ok

Failing(f) == Present(f) /\ RawOf(f) # <<>> /\ ~Convert(FieldKind(f), RawOf(f)).ok

\* C2: a bind call with an empty value source returns success and leaves
\* the target unmodified.
C2_EmptySourceNoOp ==
    (Bound /\ EmptySource) => (err = NoError /\ target = last.pre)

C2_Witness ==
    /\ Bound /\ EmptySource
    /\ last.pre.kind = "nil"
    /\ err = NoError

\* C3: after a bind call every tagged field holds the converted value
\* exactly when its key is present with a non-empty raw string that parses
\* for the field's kind, and its prior value otherwise (key absent, raw
\* string empty, or raw string unparseable).
C3_FieldAssignedIffParseable ==
    BoundStruct =>
        \A f \in FieldSet :
            target.fields[f] =
                IF Parseable(f) THEN Convert(FieldKind(f), RawOf(f)).val
                ELSE last.pre.fields[f]

C3_Witness ==
    /\ BoundStruct
    /\ last.pre.fields = PriorStruct
    /\ Present("Name") /\ RawOf("Name") = <<>> /\ target.fields.Name = <<"o">>
    /\ Parseable("Age") /\ target.fields.Age = 0 - 3
    /\ ~Present("Ok") /\ target.fields.Ok = TRUE

\* The source with every key's list cut down to one of its values.
FirstOnly(values) == [k \in DOMAIN values |-> <<values[k][1]>>]
LastOnly(values) == [k \in DOMAIN values |-> <<values[k][Len(values[k])]>>]

AnyOrder(values) == CHOOSE o \in Orders(DOMAIN values) : TRUE

\* C4 as stated: with several values under one key the call uses only the
\* first, so its outcome is that of binding the first values alone.
C4_OnlyFirstValueUsed ==
    BoundStruct =>
        LET res == BindValues(last.tagKey, last.pre, FirstOnly(last.values),
                              AnyOrder(last.values))
        IN target = res.target /\ err = res.err

\* C4 amended: with several values under one key the call uses only the
\* last value of the key; the earlier values never influence the target or
\* the error.
C4_OnlyLastValueUsed ==
    BoundStruct =>
        LET res == BindValues(last.tagKey, last.pre, LastOnly(last.values),
                              AnyOrder(last.values))
        IN target = res.target /\ err = res.err

C4_Witness ==
    /\ BoundStruct
    /\ last.op = "ReadQuery"
    /\ "a" \in DOMAIN last.values
    /\ last.values["a"] = << <<"1">>, <<"-", "3">> >>
    /\ target.fields.Age = 0 - 3

\* The first field, in declaration order, whose raw value fails conversion.
FirstFailing == CHOOSE i \in 1..Len(Fields) :
                    /\ Failing(Fields[i])
                    /\ \A j \in 1..(i - 1) : ~Failing(Fields[j])

SomeFailing == \E f \in FieldSet : Failing(f)

\* C5 as stated: on a conversion failure the call stops at the failing
\* field and returns that one error; the fields declared before it keep
\* their new values and the fields declared after it are not assigned.
C5_StopsAtFirstFailure ==
    (BoundStruct /\ SomeFailing) =>
        /\ \A j \in 1..Len(Fields) :
             target.fields[Fields[j]] =
                IF j < FirstFailing /\ Parseable(Fields[j])
                THEN Convert(FieldKind(Fields[j]), RawOf(Fields[j])).val
                ELSE last.pre.fields[Fields[j]]
        /\ \A f \in FieldSet :
             <<FieldAlias(last.tagKey, f), "ConversionError">> \in err.errs
                <=> f = Fields[FirstFailing]

\* C5 amended: on a conversion failure the call does not stop: it returns an
\* error that records every failing key, the failing fields keep their
\* prior values, and every other field whose key holds a parseable value,
\* declared before or after a failing field, keeps its new value.
C5_FailureRecordedOthersAssigned ==
    (BoundStruct /\ SomeFailing) =>
        /\ err.kind = "MultiError"
        /\ \A f \in FieldSet :
             /\ Failing(f) <=>
                   <<FieldAlias(last.tagKey, f), "ConversionError">> \in err.errs
             /\ Failing(f) => target.fields[f] = last.pre.fields[f]
             /\ Parseable(f) =>
                   target.fields[f] = Convert(FieldKind(f), RawOf(f)).val

C5_Witness ==
    /\ BoundStruct
    /\ last.pre.fields = ZeroStruct
    /\ Failing("Age")
    /\ Parseable("Name") /\ target.fields.Name = <<"x">>
    /\ Parseable("Ok") /\ target.fields.Ok = TRUE
    /\ err = MultiError({<<"a", "ConversionError">>})

InvalidKinds == {"nil", "nilptr", "struct", "ptrint"}

\* C6 as stated: a bind call with a nil target, or one that is no pointer
\* to a struct, fails with InvalidTarget whatever the source holds.
C6_InvalidTargetAlwaysFails ==
    (Bound /\ last.pre.kind \in InvalidKinds) => err = InvalidTarget

\* C6 amended: a bind call with a nil target, or one that is no pointer to a
\* struct, fails with InvalidTarget when the value source is non-empty, and
\* returns success when the source is empty; the target is left as it was.
C6_InvalidTargetFailsOnNonEmptySource ==
    (Bound /\ last.pre.kind \in InvalidKinds) =>
        /\ err = (IF EmptySource THEN NoError ELSE InvalidTarget)
        /\ target = last.pre

C6_Witness ==
    /\ Bound
    /\ last.pre.kind = "nilptr"
    /\ ~EmptySource
    /\ err = InvalidTarget

\* ------------------------------------------- the value sources, cached
\* A handler that fetches the value sources of one request several times
\* and changes the maps it was given.

\* Most key=value pairs in the query string and in the body of such a request.
MaxValPairs == 1

\* Most calls the handler makes.
MaxCalls == 4

\* The pairs such a request may carry, and the changes the handler may make.
SmallPairs == { <<"n", <<"1">>>>, <<"a", <<"x">>>> }
Changes == { <<"n", <<"x">>>>, <<"k", <<"1">>>> }

SmallQueryStrings == UNION { [1..n -> SmallPairs] : n \in 0..MaxValPairs }

\* url.Values.Set(key, value): the key's list becomes the one value.
SetValue(values, key, value) ==
    [k \in (DOMAIN values) \cup {key} |-> IF k = key THEN <<value>> ELSE values[k]]

\* The record of one call: the map involved, what it held after the call,
\* and whether the call parsed the request.
Entry(op, addr, hp, parsed, key, val) ==
    [op |-> op, addr |-> addr, got |-> hp[addr], parsed |-> parsed,
     key |-> key, val |-> val]

\* The handler calls one of Query, Form, PostForm and keeps what it returns.
Fetch(op, q) ==
    /\ Len(log) < MaxCalls
    /\ R' = q.R
    /\ heap' = q.heap
    /\ held' = q.values
    /\ log' = Append(log, Entry(op, q.values, q.heap, Len(q.heap) > Len(heap),
                                "", <<>>))
    /\ UNCHANGED <<W, streams, target, err, last, pc, cache, procs>>

CallQuery == \E q \in {Query(R, heap)} : Fetch("Query", q)

CallForm == \E q \in {Form(R, heap)} : Fetch("Form", q)

CallPostForm == \E q \in {PostForm(R, heap)} : Fetch("PostForm", q)

\* The handler changes the map it holds: values.Set(key, value).
CallSet ==
    /\ Len(log) < MaxCalls
    /\ held # 0
    /\ \E c \in Changes :
         /\ heap' = [heap EXCEPT ![held] = SetValue(@, c[1], c[2])]
         /\ log' = Append(log, Entry("Set", held, heap', FALSE, c[1], c[2]))
    /\ UNCHANGED <<R, W, streams, target, err, last, pc, held, cache, procs>>

InitValues ==
    /\ R \in { Request(mt, q, b) : mt \in {"GET", "POST"},
                                   q \in SmallQueryStrings, b \in SmallQueryStrings }
    /\ heap = <<>>
    /\ target = CHOOSE t \in Targets : TRUE
    /\ err = NoError
    /\ last = NoOp
    /\ pc = "ready"
    /\ W = <<>> /\ streams = <<>> /\ log = <<>> /\ held = 0
    /\ cache = <<>> /\ procs = <<>>

NextValues == CallQuery \/ CallForm \/ CallPostForm \/ CallSet

SpecValues == InitValues /\ [][NextValues]_vars

\* ---------------------------------------- properties of the value sources

\* Entry m is a change made through the map entry m - 1 fetched, and entry
\* m + 1 fetches the same source again.
ChangedBetween(m, op) ==
    /\ m - 1 \in DOMAIN log /\ m + 1 \in DOMAIN log
    /\ log[m - 1].op = op /\ log[m].op = "Set" /\ log[m + 1].op = op

\* The change of entry m shows in what entry m + 1 was given.
Visible(m) ==
    /\ log[m].key \in DOMAIN log[m + 1].got
    /\ log[m + 1].got[log[m].key] = <<log[m].val>>

\* C8 as stated: the query and the form source are cached at the first
\* fetch: a later fetch returns the same map without parsing again, and a
\* change made through a returned map shows in the next fetch.
C8_BothSourcesCached ==
    \A op \in {"Query", "Form"} :
        \A m \in DOMAIN log : ChangedBetween(m, op) => Visible(m)

\* C8 amended: the form sources (Form, PostForm) are cached at the first
\* fetch: a later fetch returns the same map without parsing again, and a
\* change made through a returned map shows in the next fetch.  The query
\* source (Query) is parsed anew at every fetch: each fetch returns a new
\* map holding what the query string holds, whatever was changed before.
C8_FormCachedQueryParsedAnew ==
    /\ \A op \in {"Form", "PostForm"} :
        /\ \A i, j \in DOMAIN log :
             (i < j /\ log[i].op = op /\ log[j].op = op) =>
                (log[j].addr = log[i].addr /\ ~log[j].parsed)
        /\ \A m \in DOMAIN log : ChangedBetween(m, op) => Visible(m)
    /\ \A j \in DOMAIN log :
         log[j].op = "Query" =>
            /\ log[j].parsed
            /\ \A i \in 1..(j - 1) : log[i].addr # log[j].addr
            /\ log[j].got = ParseQuery(R.rawQuery)

C8_Witness ==
    /\ Len(log) = 4
    /\ log[1].op = "Form" /\ log[2].op = "Set" /\ log[3].op = "Form"
    /\ log[2].key = "k" /\ Visible(2)
    /\ log[4].op = "Query" /\ "k" \notin DOMAIN log[4].got

\* ------------------------------------------------------ reading bodies

\* Most bytes in a request body.
MaxBody == 2

\* Most body-reading calls a handler makes on one request.
MaxReads == 2

Bytes == {"{", "}", "1"}

Bodies == UNION { [1..n -> Bytes] : n \in 0..MaxBody }

ErrEmptyBody == [kind |-> "EmptyBody", errs |-> {}]
ErrRead == [kind |-> "ReadError", errs |-> {}]
ErrOf(kind) == [kind |-> kind, errs |-> {}]

\* ioutil.ReadAll(p.R.Body): what is left of the stream, and the stream's
\* error when it ends in one instead of EOF.
ReadAll(body) ==
    [data |-> SubSeq(body.data, body.pos + 1, Len(body.data)),
     err |-> IF body.fails THEN ErrRead ELSE NoError,
     body |-> [body EXCEPT !.pos = Len(body.data)]]

\* Context.GetBody.
GetBody(req) ==
    IF ~req.Body.present
    THEN [data |-> <<>>, err |-> ErrEmptyBody, R |-> req]
    ELSE LET r == ReadAll(req.Body)
         IN [data |-> r.data, err |-> r.err, R |-> [req EXCEPT !.Body = r.body]]

\* The JSON texts over Bytes: the empty object, and the numbers 1, 11, ...
IsJSONText(data) ==
    \/ data = <<"{", "}">>
    \/ data # <<>> /\ \A i \in DOMAIN data : data[i] = "1"

\* An UnmarshalerFunc applied to (data, v): json.Unmarshal, xml.Unmarshal, and
\* two functions of the caller's, one that stores the data and one that
\* rejects it.
Unmarshal(fn, data, v) ==
    CASE fn = "json" ->
            [target |-> v,
             err |-> IF ~IsJSONText(data) THEN ErrOf("json.SyntaxError")
                     ELSE IF v.kind # "ptrstruct"
                     THEN ErrOf("json.InvalidUnmarshalError")
                     ELSE IF data # <<"{", "}">>
                     THEN ErrOf("json.UnmarshalTypeError")
                     ELSE NoError]
      [] fn = "xml" ->
            [target |-> v,
             err |-> IF v.kind # "ptrstruct" THEN ErrOf("xml.NonPointer")
                     ELSE ErrOf("EOF")]
      [] fn = "store" ->
            [target |-> [v EXCEPT !.fields.Name = data], err |-> NoError]
      [] OTHER ->
            [target |-> v, err |-> ErrOf("Rejected")]

\* A faulty variant of UnmarshalBody: the unmarshaler is called whatever GetBody
\* returned.
UnmarshalBodyUnchecked(req, v, fn) ==
    LET b == GetBody(req)
        u == Unmarshal(fn, b.data, v)
    IN [R |-> b.R, target |-> u.target, err |-> u.err,
        calls |-> <<[fn |-> fn, data |-> b.data]>>]

\* Context.UnmarshalBody(v, unmarshaler): the request and v after the call,
\* the error returned, and the calls made to the unmarshaler.
UnmarshalBody(req, v, fn) ==
    LET b == GetBody(req)
        u == Unmarshal(fn, b.data, v)
    IN IF b.err = NoError
       THEN [R |-> b.R, target |-> u.target, err |-> u.err,
             calls |-> <<[fn |-> fn, data |-> b.data]>>]
       ELSE [R |-> b.R, target |-> v, err |-> b.err, calls |-> <<>>]

\* The handler calls op, which is UnmarshalBody with the unmarshaler fn.
ReadBody(op, fn) ==
    /\ \E res \in {UnmarshalBody(R, target, fn)} :
         /\ R' = res.R
         /\ target' = res.target
         /\ err' = res.err
         /\ log' = log \o res.calls
         /\ last' = [op |-> op, fn |-> fn, pre |-> target, body |-> R.Body,
                     calls |-> Len(log)]
    /\ pc' = pc + 1
    /\ UNCHANGED <<heap, W, streams, held, cache, procs>>

\* Context.ReadJSON(v).
ReadJSON ==
    /\ pc < MaxReads
    /\ ReadBody("ReadJSON", "json")

\* Context.ReadXML(v).
ReadXML ==
    /\ pc < MaxReads
    /\ ReadBody("ReadXML", "xml")

\* Context.UnmarshalBody(v, unmarshaler) with an unmarshaler of the caller's.
CallUnmarshalBody ==
    /\ pc < MaxReads
    /\ \E fn \in {"store", "reject"} : ReadBody("UnmarshalBody", fn)

BodyTargets ==
    { [kind |-> "struct", fields |-> PriorStruct],
      [kind |-> "ptrstruct", fields |-> ZeroStruct],
      [kind |-> "ptrstruct", fields |-> PriorStruct] }

RequestBodies ==
    {NoBody} \cup { [present |-> TRUE, data |-> d, pos |-> 0, fails |-> f] :
                        d \in Bodies, f \in BOOLEAN }

InitBody ==
    /\ R \in { [Request("POST", <<>>, <<>>) EXCEPT !.Body = b] : b \in RequestBodies }
    /\ heap = <<>>
    /\ target \in BodyTargets
    /\ err = NoError
    /\ last = [op |-> "none", fn |-> "", pre |-> target, body |-> NoBody, calls |-> 0]
    /\ pc = 0
    /\ W = <<>> /\ streams = <<>> /\ log = <<>> /\ held = 0
    /\ cache = <<>> /\ procs = <<>>

NextBody == ReadJSON \/ ReadXML \/ CallUnmarshalBody

SpecBody == InitBody /\ [][NextBody]_vars

\* ------------------------------------------- properties of reading bodies

BodyRead == last.op \in {"ReadJSON", "ReadXML", "UnmarshalBody"}

\* The calls the last operation made to the unmarshaler.
CallsMade == SubSeq(log, last.calls + 1, Len(log))

\* What the stream held for the last operation.
Unread == SubSeq(last.body.data, last.body.pos + 1, Len(last.body.data))

\* C7: without a body stream UnmarshalBody returns EmptyBody, calls no
\* unmarshaler and leaves v alone; when the body is read without error it
\* calls the unmarshaler exactly once, on the bytes read and v, and returns
\* the unmarshaler's error.
C7_EmptyBodyOrOneUnmarshal ==
    BodyRead =>
        /\ ~last.body.present =>
              (err = ErrEmptyBody /\ CallsMade = <<>> /\ target = last.pre)
        /\ (last.body.present /\ ~last.body.fails) =>
              /\ CallsMade = <<[fn |-> last.fn, data |-> Unread]>>
              /\ err = Unmarshal(last.fn, Unread, last.pre).err
              /\ target = Unmarshal(last.fn, Unread, last.pre).target

C7_Witness ==
    /\ BodyRead
    /\ last.op = "ReadJSON"
    /\ last.body.present /\ ~last.body.fails
    /\ Len(log) = 1 /\ log[1].data = <<"1">>
    /\ err = ErrOf("json.UnmarshalTypeError")

\* ------------------------------------------------------------- uploads

\* Most bytes in an uploaded file.
MaxFile == 1

\* Most UploadFile calls a handler makes on one request.
MaxUploads == 2

FormKeys == {"f", "g"}

FileBytes == {"a", "b"}

\* The files of a multipart form: name, content, and whether opening the
\* file fails.
FileHeaders ==
    { [Filename |-> n, content |-> c, openFails |-> o] :
        n \in {"a.txt", "b.txt"},
        c \in UNION { [1..k -> FileBytes] : k \in 0..MaxFile },
        o \in BOOLEAN }

MultipartForms ==
    UNION { [ks -> FileHeaders] : ks \in SUBSET FormKeys }

Ev(ev, arg) == [ev |-> ev, arg |-> arg]

\* Context.FormFile(key): ParseMultipartForm(p.MaxMem), then the first file
\* under key, opened.  Yields the error, the file's header, the streams
\* after the call and what was called.
FormFile(req, strms, key) ==
    IF req.parseFails
    THEN [err |-> ErrOf("ParseError"), info |-> <<>>, streams |-> strms,
          events |-> <<Ev("ParseMultipartForm", key)>>]
    ELSE IF key \notin DOMAIN req.files
    THEN [err |-> ErrOf("ErrMissingFile"), info |-> <<>>, streams |-> strms,
          events |-> <<Ev("ParseMultipartForm", key)>>]
    ELSE IF req.files[key].openFails
    THEN [err |-> ErrOf("OpenError"), info |-> req.files[key], streams |-> strms,
          events |-> <<Ev("ParseMultipartForm", key), Ev("Open", key)>>]
    ELSE [err |-> NoError, info |-> req.files[key],
          streams |-> Append(strms, [kind |-> "file", open |-> TRUE,
                                     data |-> req.files[key].content]),
          events |-> <<Ev("ParseMultipartForm", key), Ev("Open", key)>>]

ErrCreateFile == ErrOf("CreateFileFailed")

\* stream.Close().
Close(strms, id) == [strms EXCEPT ![id].open = FALSE]

\* io.Copy(out, file): the first n bytes reach the sink; copyErr is the
\* error that stopped the copy, NoError at the end of the file.
Copy(strms, out, file, n) ==
    [strms EXCEPT ![out].data = SubSeq(strms[file].data, 1, n)]

\* A faulty variant of UploadFile: the streams are closed after a copy only, not when
\* createFile yields no sink.
UploadFileLeaky(req, strms, key, sink, n, copyErr) ==
    LET ff == FormFile(req, strms, key)
        file == Len(ff.streams)
        made == <<Ev("createFile", ff.info.Filename)>>
        out == file + 1
        opened == Append(ff.streams, [kind |-> "sink", open |-> TRUE, data |-> <<>>])
    IN IF ff.err # NoError
       THEN [err |-> ff.err, streams |-> ff.streams, events |-> ff.events]
       ELSE IF ~sink
       THEN [err |-> ErrCreateFile, streams |-> ff.streams,
             events |-> ff.events \o made]
       ELSE [err |-> copyErr,
             streams |-> Close(Close(Copy(opened, out, file, n), out), file),
             events |-> ff.events \o made
                          \o <<Ev("Copy", out), Ev("Close", out), Ev("Close", file)>>]

\* Context.UploadFile(key, createFile).  sink tells whether createFile
\* returns a sink or nil; n and copyErr are what io.Copy does.  Yields the
\* error returned, the streams after the call and what was called, in order:
\* the deferred Close calls run last, the sink's before the file's.
UploadFile(req, strms, key, sink, n, copyErr) ==
    LET ff == FormFile(req, strms, key)
        file == Len(ff.streams)
        made == <<Ev("createFile", ff.info.Filename)>>
        out == file + 1
        opened == Append(ff.streams, [kind |-> "sink", open |-> TRUE, data |-> <<>>])
    IN IF ff.err # NoError
       THEN [err |-> ff.err, streams |-> ff.streams, events |-> ff.events]
       ELSE IF ~sink
       THEN [err |-> ErrCreateFile, streams |-> Close(ff.streams, file),
             events |-> ff.events \o made \o <<Ev("Close", file)>>]
       ELSE [err |-> copyErr,
             streams |-> Close(Close(Copy(opened, out, file, n), out), file),
             events |-> ff.events \o made
                          \o <<Ev("Copy", out), Ev("Close", out), Ev("Close", file)>>]

\* What io.Copy may do with a file of the given content: copy it all, or
\* stop after n bytes with a read or a write error.
CopyOutcomes(content) ==
    {<<Len(content), NoError>>}
        \cup { <<n, e>> : n \in 0..Len(content),
                          e \in {ErrOf("ReadError"), ErrOf("WriteError")} }

\* The content UploadFile would copy: that of the file under key, if any.
ContentAt(req, key) ==
    IF key \in DOMAIN req.files THEN req.files[key].content ELSE <<>>

\* The handler calls UploadFile.
CallUploadFile ==
    /\ pc < MaxUploads
    /\ \E key \in FormKeys, sink \in BOOLEAN :
         \E c \in CopyOutcomes(ContentAt(R, key)) :
           \E res \in {UploadFile(R, streams, key, sink, c[1], c[2])} :
             /\ streams' = res.streams
             /\ err' = res.err
             /\ log' = log \o res.events
             /\ last' = [op |-> "UploadFile", key |-> key, sink |-> sink,
                         copyErr |-> c[2], streams |-> Len(streams),
                         events |-> Len(log)]
    /\ pc' = pc + 1
    /\ UNCHANGED <<R, heap, W, target, held, cache, procs>>

InitUpload ==
    /\ R \in { [parseFails |-> pf, files |-> fs] :
                 pf \in BOOLEAN, fs \in MultipartForms }
    /\ heap = <<>>
    /\ target = CHOOSE t \in Targets : TRUE
    /\ err = NoError
    /\ last = [op |-> "none", key |-> "", sink |-> FALSE, copyErr |-> NoError,
               streams |-> 0, events |-> 0]
    /\ pc = 0
    /\ W = <<>> /\ streams = <<>> /\ log = <<>> /\ held = 0
    /\ cache = <<>> /\ procs = <<>>

NextUpload == CallUploadFile

SpecUpload == InitUpload /\ [][NextUpload]_vars

\* -------------------------------------------------- properties of uploads

Uploaded == last.op = "UploadFile"

\* The multipart file was obtained by the last call.
Obtained ==
    /\ ~R.parseFails
    /\ last.key \in DOMAIN R.files
    /\ ~R.files[last.key].openFails

\* The streams the last call opened, and what it called.
OpenedByCall == (last.streams + 1)..Len(streams)
EventsOfCall == SubSeq(log, last.events + 1, Len(log))

CallbackCalls ==
    { i \in DOMAIN EventsOfCall : EventsOfCall[i].ev = "createFile" }

\* C1: when UploadFile returns, every stream it opened is closed: once the
\* file was obtained, the file on every path (copy done, copy error, no
\* sink, which returns CreateFileFailed) and the sink whenever createFile
\* returned one; when the file is not obtained, createFile is never called
\* and no stream was opened.
C1_StreamsClosedOnEveryPath ==
    Uploaded =>
        /\ \A id \in OpenedByCall : ~streams[id].open
        /\ Obtained =>
              /\ { streams[id].kind : id \in OpenedByCall }
                    = (IF last.sink THEN {"file", "sink"} ELSE {"file"})
              /\ Cardinality(OpenedByCall) = (IF last.sink THEN 2 ELSE 1)
              /\ Cardinality(CallbackCalls) = 1
              /\ err = (IF last.sink THEN last.copyErr ELSE ErrCreateFile)
        /\ ~Obtained =>
              /\ OpenedByCall = {}
              /\ CallbackCalls = {}
              /\ err # NoError

C1_Witness ==
    /\ Uploaded
    /\ Obtained
    /\ ~last.sink
    /\ err = ErrCreateFile
    /\ Len(streams) = 3
    /\ streams[1].kind = "file" /\ streams[2].kind = "sink"
    /\ \A id \in DOMAIN streams : ~streams[id].open

\* ----------------------------------------------------------- responses

\* Most bytes in the data a handler writes.
MaxData == 1

\* Most response-writing calls a handler makes on one request.
MaxWrites == 2

headerTypeContentType == "Content-Type"
headerTypeContentJSON == "application/json;charset=utf-8"
headerTypeContentXML == "text/xml;charset=utf-8"
headerTypeContentHTML == "text/html;charset=utf-8"
headerTypeContentText == "text/plain;charset=utf-8"

DataBytes == {"a", "<", "&"}

Datas == UNION { [1..n -> DataBytes] : n \in 0..MaxData }

StatusCodes == {200, 404}

\* The header overlays a handler may pass to WriteHeader: nil, or a map.
Overlays ==
    {[nil |-> TRUE, map |-> NoValues]}
        \cup { [nil |-> FALSE, map |-> m] :
                 m \in UNION { [ks -> {<<"v">>}] :
                                 ks \in SUBSET {headerTypeContentType, "X-Id"} } }

\* A ResponseWriter nothing was written to.
NewWriter ==
    [header |-> NoValues, wroteHeader |-> FALSE, status |-> 0,
     sent |-> NoValues, body |-> <<>>]

\* ResponseWriter.WriteHeader(code): the first call fixes the status line
\* and the headers sent; a later call changes nothing.
RWWriteHeader(w, code) ==
    IF w.wroteHeader THEN w
    ELSE [w EXCEPT !.wroteHeader = TRUE, !.status = code, !.sent = w.header]

\* ResponseWriter.Write(data): WriteHeader(200) if none was written, then
\* the bytes.
RWWrite(w, data) ==
    [RWWriteHeader(w, 200) EXCEPT !.body = @ \o data]

\* json.HTMLEscape: <, > and & become the escapes u003c, u003e and u0026.
RECURSIVE JSONHTMLEscape(_)
JSONHTMLEscape(data) ==
    IF data = <<>> THEN <<>>
    ELSE (CASE data[1] = "<" -> <<"\\", "u", "0", "0", "3", "c">>
            [] data[1] = ">" -> <<"\\", "u", "0", "0", "3", "e">>
            [] data[1] = "&" -> <<"\\", "u", "0", "0", "2", "6">>
            [] OTHER -> <<data[1]>>) \o JSONHTMLEscape(Tail(data))

\* html.EscapeString: <, > and & become &lt;, &gt; and &amp;.
RECURSIVE EscapeString(_)
EscapeString(str) ==
    IF str = <<>> THEN <<>>
    ELSE (CASE str[1] = "<" -> <<"&", "l", "t", ";">>
            [] str[1] = ">" -> <<"&", "g", "t", ";">>
            [] str[1] = "&" -> <<"&", "a", "m", "p", ";">>
            [] OTHER -> <<str[1]>>) \o EscapeString(Tail(str))

\* Each Context operation below yields the writer after it and the calls it
\* made on the writer, in order.

\* Context.SetHeader(name, value).
SetHeader(w, name, value) ==
    [W |-> [w EXCEPT !.header = SetValue(@, name, value)],
     events |-> <<Ev("Header.Set", <<name, value>>)>>]

\* Context.Write(data).
Write(w, data) ==
    [W |-> RWWrite(w, data), events |-> <<Ev("Write", data)>>]

\* Context.WriteString(str).
WriteString(w, str) == Write(w, EscapeString(str))

\* The overlay's keys copied into the writer's header, in the given order.
RECURSIVE ApplyOverlay(_, _, _)
ApplyOverlay(t, map, order) ==
    IF order = <<>> THEN t
    ELSE ApplyOverlay(
            [W |-> [t.W EXCEPT !.header = order[1] :> map[order[1]] @@ @],
             events |-> Append(t.events, Ev("Header.Set", <<order[1], map[order[1]][1]>>))],
            map, Tail(order))

\* Context.WriteHeader(statusCode, h); order is the order in which the range
\* over h visits its keys.
WriteHeader(w, statusCode, h, order) ==
    LET t == IF h.nil THEN [W |-> w, events |-> <<>>]
             ELSE ApplyOverlay([W |-> w, events |-> <<>>], h.map, order)
    IN [W |-> RWWriteHeader(t.W, statusCode),
        events |-> Append(t.events, Ev("WriteHeader", statusCode))]

\* Context.WriteDataJSON(data): buf.WriteTo(p.W) calls Write only when the
\* buffer holds bytes.
WriteDataJSON(w, data) ==
    LET buf == JSONHTMLEscape(data)
        t == SetHeader(w, headerTypeContentType, headerTypeContentJSON)
        u == Write(t.W, buf)
    IN IF buf = <<>> THEN t
       ELSE [W |-> u.W, events |-> t.events \o u.events]

\* A faulty variant of WriteDataXML: the data is written before the header is set.
WriteDataXMLLate(w, data) ==
    LET u == Write(w, data)
        t == SetHeader(u.W, headerTypeContentType, headerTypeContentXML)
    IN [W |-> t.W, events |-> u.events \o t.events]

\* Context.WriteDataXML(data).
WriteDataXML(w, data) ==
    LET t == SetHeader(w, headerTypeContentType, headerTypeContentXML)
        u == Write(t.W, data)
    IN [W |-> u.W, events |-> t.events \o u.events]

\* Context.WriteHTML(data).
WriteHTML(w, data) ==
    LET t == SetHeader(w, headerTypeContentType, headerTypeContentHTML)
        u == WriteString(t.W, data)
    IN [W |-> u.W, events |-> t.events \o u.events]

\* Context.WriteText(data).
WriteText(w, data) ==
    LET t == SetHeader(w, headerTypeContentType, headerTypeContentText)
        u == Write(t.W, data)
    IN [W |-> u.W, events |-> t.events \o u.events]

\* The handler made the call op with the given arguments, with result res.
Respond(op, code, h, data, res) ==
    /\ W' = res.W
    /\ log' = log \o res.events
    /\ last' = [op |-> op, code |-> code, h |-> h, data |-> data, pre |-> W,
                events |-> Len(log)]
    /\ pc' = pc + 1
    /\ UNCHANGED <<R, heap, streams, target, err, held, cache, procs>>

NoOverlay == [nil |-> TRUE, map |-> NoValues]

CallWriteHeader ==
    /\ pc < MaxWrites
    /\ \E code \in StatusCodes, h \in Overlays :
         \E order \in Orders(DOMAIN h.map) :
           Respond("WriteHeader", code, h, <<>>, WriteHeader(W, code, h, order))

CallWriteDataJSON ==
    /\ pc < MaxWrites
    /\ \E data \in Datas :
         Respond("WriteDataJSON", 0, NoOverlay, data, WriteDataJSON(W, data))

CallWriteDataXML ==
    /\ pc < MaxWrites
    /\ \E data \in Datas :
         Respond("WriteDataXML", 0, NoOverlay, data, WriteDataXML(W, data))

CallWriteHTML ==
    /\ pc < MaxWrites
    /\ \E data \in Datas :
         Respond("WriteHTML", 0, NoOverlay, data, WriteHTML(W, data))

CallWriteText ==
    /\ pc < MaxWrites
    /\ \E data \in Datas :
         Respond("WriteText", 0, NoOverlay, data, WriteText(W, data))

\* The headers a handler may set on its own.
OwnHeaders == { <<"X-Id", "v">>, <<headerTypeContentType, "text/css">> }

CallSetHeader ==
    /\ pc < MaxWrites
    /\ \E nv \in OwnHeaders :
         Respond("SetHeader", 0, NoOverlay, <<>>, SetHeader(W, nv[1], nv[2]))

InitWrite ==
    /\ R = NewRequest(<<>>)
    /\ heap = <<>>
    /\ target = CHOOSE t \in Targets : TRUE
    /\ err = NoError
    /\ last = [op |-> "none", code |-> 0, h |-> NoOverlay, data |-> <<>>,
               pre |-> NewWriter, events |-> 0]
    /\ pc = 0
    /\ W = NewWriter
    /\ streams = <<>> /\ log = <<>> /\ held = 0
    /\ cache = <<>> /\ procs = <<>>

NextWrite ==
    \/ CallWriteHeader
    \/ CallWriteDataJSON
    \/ CallWriteDataXML
    \/ CallWriteHTML
    \/ CallWriteText
    \/ CallSetHeader

SpecWrite == InitWrite /\ [][NextWrite]_vars

\* ------------------------------------------------ properties of responses

DataOps == {"WriteDataJSON", "WriteDataXML", "WriteHTML", "WriteText"}

Responded == last.op \in DataOps \cup {"WriteHeader", "SetHeader"}

\* The Content-Type each data operation is to set.
FixedType(op) ==
    CASE op = "WriteDataJSON" -> "application/json;charset=utf-8"
      [] op = "WriteDataXML" -> "text/xml;charset=utf-8"
      [] op = "WriteHTML" -> "text/html;charset=utf-8"
      [] OTHER -> "text/plain;charset=utf-8"

\* The positions, among the last operation's calls on the writer, of the
\* calls of the given kinds.
CallsOf(kinds) == { i \in DOMAIN EventsOfCall : EventsOfCall[i].ev \in kinds }

\* C10: in every response-writing operation the header writes come before
\* the status line is written and before any body byte.  WriteHeader copies
\* the whole overlay (nothing when it is nil) and then writes the status
\* code exactly once; WriteDataJSON, WriteDataXML, WriteHTML and WriteText
\* set Content-Type to their fixed value before the first write to the body,
\* so a response they start is sent with that Content-Type.
C10_HeadersBeforeStatusAndBody ==
    Responded =>
        /\ \A i \in CallsOf({"Header.Set"}), j \in CallsOf({"WriteHeader", "Write"}) :
             i < j
        /\ last.op = "WriteHeader" =>
              /\ { EventsOfCall[i].arg : i \in CallsOf({"Header.Set"}) }
                    = { <<k, last.h.map[k][1]>> : k \in DOMAIN last.h.map }
              /\ \A k \in DOMAIN last.h.map : W.header[k] = last.h.map[k]
              /\ \A k \in DOMAIN W.header \ DOMAIN last.h.map :
                    k \in DOMAIN last.pre.header /\ W.header[k] = last.pre.header[k]
              /\ Cardinality(CallsOf({"WriteHeader"})) = 1
              /\ CallsOf({"Write"}) = {}
              /\ EventsOfCall[Len(EventsOfCall)] = Ev("WriteHeader", last.code)
              /\ ~last.pre.wroteHeader =>
                    (W.status = last.code /\ W.sent = W.header)
        /\ last.op \in DataOps =>
              /\ EventsOfCall[1]
                    = Ev("Header.Set", <<"Content-Type", FixedType(last.op)>>)
              /\ Cardinality(CallsOf({"Header.Set"})) = 1
              /\ W.header["Content-Type"] = <<FixedType(last.op)>>
              /\ (~last.pre.wroteHeader /\ W.wroteHeader) =>
                    W.sent["Content-Type"] = <<FixedType(last.op)>>

C10_Witness ==
    /\ Responded
    /\ last.op = "WriteDataXML"
    /\ ~last.pre.wroteHeader
    /\ last.pre.header = ("X-Id" :> <<"v">>)
    /\ W.body = <<"<">>
    /\ W.sent = ("X-Id" :> <<"v">>) @@ ("Content-Type" :> <<"text/xml;charset=utf-8">>)

\* ----------------------------------------------------- concurrent bind
\* Several handlers, each with a Context, a request and a target of its own,
\* bind at the same time.  decoderForm and decoderQuery are the module's:
\* every handler's Decode goes through the decoder's struct-info cache, which
\* is read under its read lock and filled under its write lock.

\* Most key=value pairs in the query string of such a request.
MaxConcPairs == 2

Handlers == {"h1", "h2"}

Decoders == {"form", "url"}

ConcPairs == { <<"n", <<"x">>>>, <<"name", <<"x">>>>, <<"a", <<"x">>>> }

ConcQueryStrings == UNION { [1..n -> ConcPairs] : n \in 0..MaxConcPairs }

\* A cache entry: the struct info of T, or nothing yet.
NoInfo == [ok |-> FALSE, aliases |-> [f \in FieldSet |-> ""]]
InfoOf(tagKey) == [ok |-> TRUE, aliases |-> StructInfo(tagKey)]

\* A faulty variant of CacheOf: init builds one decoder and both names point to it.
OneCache(tagKey) == "form"

\* The cache a bind call goes through: that of the decoder init built for
\* its tag, decoderForm or decoderQuery.
CacheOf(tagKey) == tagKey

\* The values a handler's call fetches from its own request.
ValuesFor(tagKey, req) ==
    LET q == IF tagKey = "url" THEN Query(req, <<>>) ELSE Form(req, <<>>)
    IN q.heap[q.values]

\* ReadForm / ReadQuery up to Decode's loop: the values are fetched, an empty
\* source returns nil, a target that is no pointer to a struct returns the
\* error.
Start(h) ==
    /\ procs[h].pc = "start"
    /\ \E values \in {ValuesFor(procs[h].tagKey, procs[h].req)} :
         IF DOMAIN values = {}
         THEN procs' = [procs EXCEPT ![h].pc = "done", ![h].err = NoError,
                                     ![h].values = values]
         ELSE IF ~IsPtrToStruct(procs[h].target)
         THEN procs' = [procs EXCEPT ![h].pc = "done", ![h].err = InvalidTarget,
                                     ![h].values = values]
         ELSE \E order \in Orders(DOMAIN values) :
                procs' = [procs EXCEPT ![h].pc = "lookup", ![h].values = values,
                                       ![h].keys = order]
    /\ UNCHANGED <<R, heap, W, streams, target, err, last, pc, log, held, cache>>

\* cache.get, first half: under the read lock, the entry is read.
Lookup(h) ==
    /\ procs[h].pc = "lookup"
    /\ \E info \in {cache[CacheOf(procs[h].tagKey)]} :
         procs' = [procs EXCEPT ![h].info = info,
                                ![h].pc = IF info.ok THEN "field" ELSE "create"]
    /\ UNCHANGED <<R, heap, W, streams, target, err, last, pc, log, held, cache>>

\* cache.get, second half: the info is created and, under the write lock,
\* stored.
Create(h) ==
    /\ procs[h].pc = "create"
    /\ \E info \in {InfoOf(procs[h].tagKey)} :
         /\ cache' = [cache EXCEPT ![CacheOf(procs[h].tagKey)] = info]
         /\ procs' = [procs EXCEPT ![h].info = info, ![h].pc = "field"]
    /\ UNCHANGED <<R, heap, W, streams, target, err, last, pc, log, held>>

\* One round of Decode's loop, and Decode's return after the last.
Field(h) ==
    /\ procs[h].pc = "field"
    /\ LET p == procs[h]
           acc == DecodePath(p.info.aliases, [fields |-> p.target.fields, errs |-> p.errs],
                             p.keys[1], p.values[p.keys[1]])
           more == Len(p.keys) > 1
       IN procs' = [procs EXCEPT
                      ![h].target.fields = acc.fields,
                      ![h].errs = acc.errs,
                      ![h].keys = Tail(p.keys),
                      ![h].pc = IF more THEN "lookup" ELSE "done",
                      ![h].err = IF more \/ acc.errs = {} THEN NoError
                                 ELSE MultiError(acc.errs)]
    /\ UNCHANGED <<R, heap, W, streams, target, err, last, pc, log, held, cache>>

\* A handler about to call ReadForm or ReadQuery on its own request.
NewHandler(tagKey, q) ==
    [tagKey |-> tagKey, req |-> NewRequest(q),
     pre |-> [kind |-> "ptrstruct", fields |-> ZeroStruct],
     target |-> [kind |-> "ptrstruct", fields |-> ZeroStruct],
     pc |-> "start", values |-> NoValues, keys |-> <<>>, info |-> NoInfo,
     errs |-> {}, err |-> NoError]

ColdCache == [d \in Decoders |-> NoInfo]

InitConc ==
    /\ procs \in [Handlers -> { NewHandler(t, q) : t \in Decoders,
                                                   q \in ConcQueryStrings }]
    /\ cache = ColdCache
    /\ R = NewRequest(<<>>)
    /\ heap = <<>>
    /\ target = CHOOSE t \in Targets : TRUE
    /\ err = NoError
    /\ last = NoOp
    /\ pc = "ready"
    /\ W = <<>> /\ streams = <<>> /\ log = <<>> /\ held = 0

NextConc == \E h \in Handlers : Start(h) \/ Lookup(h) \/ Create(h) \/ Field(h)

SpecConc == InitConc /\ [][NextConc]_vars

\* ------------------------------------------ properties of concurrent bind

\* What handler h's call returns when it runs alone.
Alone(h) ==
    LET values == ParseQuery(procs[h].req.rawQuery)
    IN BindValues(procs[h].tagKey, procs[h].pre, values, AnyOrder(values))

\* C9 as stated: a bind call reads and writes no mutable state shared with
\* another call: nothing the handlers share is ever changed.
C9_NoSharedMutableState == cache = ColdCache

\* C9 amended: concurrent bind calls, each with a target of its own, are
\* safe although they share the module's decoders: a call reads and fills
\* the decoder's struct-info cache under the cache's lock, the cache only
\* ever holds the decoder's own info, and under every interleaving each call
\* returns what it returns when run alone.
C9_ResultAsWhenAlone ==
    /\ \A d \in Decoders : cache[d] \in {NoInfo, InfoOf(d)}
    /\ \A h \in Handlers :
         procs[h].pc = "done" =>
            /\ procs[h].target = Alone(h).target
            /\ procs[h].err = Alone(h).err

C9_Witness ==
    /\ procs["h1"].pc = "done"
    /\ procs["h1"].tagKey = "url"
    /\ procs["h1"].target.fields.Name = <<"x">>
    /\ procs["h2"].pc = "create"
    /\ procs["h2"].tagKey = "url"
    /\ cache["url"].ok

=============================================================================
